---- MODULE Spec2Model ----
(***************************************************************************)
(* Review-session coordination protocol of code-review-copilot.            *)
(*                                                                         *)
(* One review session document (one review_id) in the Session Store, the   *)
(* three per-domain task topics, the consolidation topic, the three domain *)
(* workers, the Completion Watcher (a Firestore-triggered function running *)
(* a transaction) and the Consolidator job.                                *)
(***************************************************************************)
EXTENDS Integers, Sequences, FiniteSets, Bags, TLC

(* ------------------------------ bounds --------------------------------- *)
\* number of extra (at-least-once) redeliveries of a message, over all topics
MaxRedeliver == 1
\* number of publish calls (to a task topic or to the consolidation topic) that fail
MaxPublishFailures == 1
\* number of webhook requests with a non-qualifying action
MaxIgnored == 1
\* number of relevant changed files of a pull request
MaxFiles == 3

(* --------------------------- program constants ------------------------- *)
\* "total_tasks": 3 written by receive_webhook
TotalTasks == 3
\* max_retries=3, the default of generate_content_with_retry
max_retries == 3

Domains == {"quality", "security", "docs"}
\* the topics in the order receive_webhook publishes to them
Topics == << "quality", "security", "docs" >>
\* the action filter letting 'closed' through
QualifyingAndClosed == {"opened", "reopened", "synchronize", "closed"}

\* the pull request actions receive_webhook acts on, and the ones it is sent
Qualifying == {"opened", "reopened", "synchronize"}
Actions == Qualifying \cup {"closed", "edited"}
\* the head commits pushed to the pull request, in the order they are pushed
Revisions == <<"abc", "def">>
Shas == {Revisions[i] : i \in 1..Len(Revisions)}
Watchers == {"w1", "w2"}
None == "none"
\* an error text is identified by the worker run that produced it
NoError == [dom |-> None, sha |-> None]
\* no webhook request was handled yet
NoRequest == [n |-> 0, action |-> None, status |-> 0, signature |-> << >>]
ErrorText(dom, task_sha) == [dom |-> dom, sha |-> task_sha]

VARIABLES
    doc,        \* the review document reviews/<review_id>
    taskQ,      \* taskQ[d][s]: undelivered messages on domain d's topic for head_sha s
    consQ,      \* bag of undelivered messages on the consolidation topic
    wpc,        \* wpc[w]: position of watcher invocation w in its transaction
    wdirty,     \* wdirty[w]: the document was written since w's transaction read it
    hist,       \* history: head_sha of every ingested event, in order
    budget,     \* redeliveries the message channels may still make
    pubCount,   \* history: pubCount[s] consolidation messages published for head_sha s
    posted,     \* history: posted[s] reports posted to the PR for head_sha s
    ret,        \* what the last fenced commit returned to its caller
    http,       \* the webhook requests handled: their number, the last action
                \* and the HTTP status of the last response
    faults,     \* publish calls that may still fail
    infer,      \* one call of a component to the inference collaborator: who
                \* calls, what each attempt meets, and how the call ended
    addr,       \* the pr_info of two webhook events and the review_id computed
                \* for each
    analysis    \* one worker's analysis of a list of changed files: the worker,
                \* the files, and the status and results it commits

vars == <<doc, taskQ, consQ, wpc, wdirty, hist, budget, pubCount, posted, ret,
          http, faults, infer, addr, analysis>>

(* ----------------------- the inference collaborator -------------------- *)
\* what one model.generate_content call meets: a response, one of the three
\* api_exceptions that generate_content_with_retry retries, or another exception
Retryable == {"ResourceExhausted", "ServiceUnavailable", "InternalServerError"}
CallOutcomes == {"ok"} \cup Retryable \cup {"InvalidArgument"}
Callers == {"quality", "security", "docs", "consolidator"}

\* no call is being looked at
NoCall == [caller |-> None, script |-> << >>, draws |-> << >>, calls |-> 0,
           result |-> None, sleeps |-> << >>]

\* 2 ** n
RECURSIVE Pow2(_)
Pow2(n) == IF n = 0 THEN 1 ELSE 2 * Pow2(n - 1)

\* what random.random() returns: a float in [0, 1), a multiple of 2^-53; the
\* least one, one in the middle and the greatest one
RandomValues == {"0", "0.5", "1-2^-53"}

\* a constant base delay in place of the exponential one
ConstantWait(retries, draw) ==
    IF draw = "1-2^-53"
    THEN [seconds |-> 3, fraction |-> "0"]
    ELSE [seconds |-> 2, fraction |-> draw]

\* wait_time = (2 ** retries) + random.random(), for retries >= 1, as the float
\* sum of an int and a float: floats from 2 on are at least 2^-51 apart, so the
\* sum with the greatest value of random.random() rounds to 2 ** retries + 1
BackoffWait(retries, draw) ==
    IF draw = "1-2^-53"
    THEN [seconds |-> Pow2(retries) + 1, fraction |-> "0"]
    ELSE [seconds |-> Pow2(retries), fraction |-> draw]

\* the while loop of generate_content_with_retry from the state `retries`,
\* `sleeps` = the argument of every time.sleep so far; script[k] is what the
\* k-th call of model.generate_content meets, draws[k] what random.random()
\* returns before the k-th sleep. The result is "ok" (the response
\* is returned), the exception raised, or None when the loop ends without a call.
RECURSIVE RetryLoop(_, _, _, _, _)
RetryLoop(script, draws, limit, retries, sleeps) ==
    IF retries >= limit
    THEN [calls |-> retries, result |-> None, sleeps |-> sleeps]
    ELSE LET met == script[retries + 1]
         IN  IF met = "ok"
             THEN [calls |-> retries + 1, result |-> "ok", sleeps |-> sleeps]
             ELSE IF met \in Retryable
             THEN IF retries + 1 >= limit
                  THEN [calls |-> retries + 1, result |-> met, sleeps |-> sleeps]
                  ELSE RetryLoop(script, draws, limit, retries + 1,
                                 Append(sleeps, BackoffWait(retries + 1,
                                                            draws[retries + 1])))
             ELSE [calls |-> retries + 1, result |-> met, sleeps |-> sleeps]

\* model.generate_content called directly: one attempt, whatever it meets
generate_content(script, draws) ==
    [calls |-> 1, result |-> script[1], sleeps |-> << >>]

\* the call without the loop around it
single_attempt(script, draws) ==
    [calls |-> 1, result |-> script[1], sleeps |-> << >>]

generate_content_with_retry(script, draws) ==
    RetryLoop(script, draws, max_retries, 0, << >>)

\* how each component calls the model: doc-drafter and the consolidator through
\* generate_content_with_retry, quality-analyst and security-specialist directly
InferenceBy(caller, script, draws) ==
    IF caller \in {"docs", "consolidator"}
    THEN generate_content_with_retry(script, draws)
    ELSE generate_content(script, draws)

(* ------------------------------ review_id ------------------------------ *)
\* a text is the sequence of its characters
Replace(text, old, new) ==
    [i \in 1..Len(text) |-> IF text[i] = old THEN new ELSE text[i]]

\* str(n) of a non-negative int
RECURSIVE Str(_)
Str(n) ==
    LET digit == << "0", "1", "2", "3", "4", "5", "6", "7", "8", "9" >>[(n % 10) + 1]
    IN  IF n < 10 THEN << digit >> ELSE Append(Str(n \div 10), digit)

\* repository names and pull request numbers of the incoming events
RepoNames ==
    { << "a", "/", "b" >>, << "a", "/", "b", "_", "1" >>,
      << "a", "_", "b", "/", "c" >>, << "a", "/", "b", "_", "c" >> }
PrNumbers == {1, 2, 11}
PrInfos == [repo_full_name : RepoNames, pr_number : PrNumbers, head_sha : Shas]

\* the document key with the head commit appended to it
review_id_per_commit(pr_info) ==
    Replace(pr_info.repo_full_name, "/", "_") \o << "_" >> \o Str(pr_info.pr_number)
        \o << "_", pr_info.head_sha >>

\* f"{pr_info['repo_full_name'].replace('/', '_')}_{pr_info['pr_number']}"
review_id(pr_info) ==
    Replace(pr_info.repo_full_name, "/", "_") \o << "_" >> \o Str(pr_info.pr_number)

NoPrInfo == [repo_full_name |-> << >>, pr_number |-> 0, head_sha |-> None]
NoEvents == [first |-> NoPrInfo, second |-> NoPrInfo, ids |-> << >>]

(* --------------------------- analysis of files ------------------------- *)
\* a relevant changed file: its content can be read and the model answers, its
\* content cannot be read or decoded, or the model call for it raises
FileKinds == {"readable", "unreadable", "model_fails"}
Path(i) == << "f" >> \o Str(i)
Sentinel == [file_path |-> << "N", "/", "A" >>, feedback |-> "no relevant files"]

\* the record quality-analyst and doc-drafter append for one file
FileRecord(files, i) ==
    [ file_path |-> Path(i),
      feedback |-> CASE files[i] = "unreadable" -> "unavailable"
                     [] files[i] = "model_fails" -> "model analysis failed"
                     [] OTHER -> "feedback" ]

\* quality-analyst and doc-drafter main: the sentinel when no relevant file
\* changed, else one record per file; a failed retrieval or model call becomes
\* the feedback of that file's record
analyse_files(files) ==
    IF files = << >>
    THEN [status |-> "complete", results |-> << Sentinel >>]
    ELSE [status |-> "complete",
          results |-> [i \in 1..Len(files) |-> FileRecord(files, i)]]

\* security-specialist main: a file that cannot be read is skipped (continue),
\* a model call that raises ends the run in the except handler
security_analyse_files(files) ==
    IF files = << >>
    THEN [status |-> "complete", results |-> << Sentinel >>]
    ELSE IF \E i \in 1..Len(files) : files[i] = "model_fails"
    THEN [status |-> "error", results |-> << >>]
    ELSE [status |-> "complete",
          results |-> SelectSeq([i \in 1..Len(files) |-> FileRecord(files, i)],
                                LAMBDA r : r.feedback /= "unavailable")]

AnalysisBy(worker, files) ==
    IF worker = "security" THEN security_analyse_files(files) ELSE analyse_files(files)

NoAnalysis == [worker |-> None, files |-> << >>, status |-> None, results |-> << >>]

(* --------------------------- the document ------------------------------ *)
\* a document that was never written: every field absent
NoDoc ==
    [ exists |-> FALSE,
      status |-> None, head_sha |-> None,
      tasks_completed |-> 0, total_tasks |-> -1,
      quality_status |-> None, security_status |-> None, docs_status |-> None,
      quality_analysis_results |-> None, security_analysis_results |-> None,
      docs_analysis_results |-> None,
      error_message |-> NoError, quality_error |-> NoError,
      security_error |-> NoError, docs_error |-> NoError,
      final_report |-> None,
      final_consolidator_error |-> [kind |-> None, sha |-> None] ]

\* review_ref.set({...}, merge=True): the listed fields are overwritten, every
\* other field of an existing document is kept
SetMerge(d, sha) ==
    [ d EXCEPT !.exists = TRUE,
               !.status = "pending",
               !.head_sha = sha,
               !.tasks_completed = 0,
               !.total_tasks = TotalTasks,
               !.quality_status = "pending",
               !.security_status = "pending",
               !.docs_status = "pending" ]

StatusField(dom) ==
    CASE dom = "quality" -> "quality_status"
      [] dom = "security" -> "security_status"
      [] dom = "docs" -> "docs_status"

ResultsField(dom) ==
    CASE dom = "quality" -> "quality_analysis_results"
      [] dom = "security" -> "security_analysis_results"
      [] dom = "docs" -> "docs_analysis_results"

ErrorField(dom) ==
    CASE dom = "quality" -> "quality_error"
      [] dom = "security" -> "security_error"
      [] dom = "docs" -> "docs_error"

\* the update a worker applies on success: results, status, Increment(1)
ApplyResults(d, dom, task_sha) ==
    [ d EXCEPT ![ResultsField(dom)] = task_sha,
               ![StatusField(dom)] = "complete",
               !.tasks_completed = d.tasks_completed + 1 ]

\* the commit without its fence: the results are applied whatever head_sha is
update_firestore_unfenced(d, dom, task_sha) == ApplyResults(d, dom, task_sha)

\* quality-analyst / doc-drafter update_firestore_atomically
update_firestore_atomically(d, dom, task_sha) ==
    IF d.head_sha = task_sha THEN ApplyResults(d, dom, task_sha) ELSE d

\* quality-analyst update_error_atomically: writes the shared error_message field
quality_update_error_atomically(d, task_sha) ==
    IF d.head_sha = task_sha
    THEN [ d EXCEPT !.quality_status = "error",
                    !.error_message = ErrorText("quality", task_sha) ]
    ELSE d

\* doc-drafter update_error_atomically: writes docs_error
docs_update_error_atomically(d, task_sha) ==
    IF d.head_sha = task_sha
    THEN [ d EXCEPT !.docs_status = "error", !.docs_error = ErrorText("docs", task_sha) ]
    ELSE d

\* security-specialist: plain review_ref.update, no comparison of head_sha
security_update_results(d, task_sha) == ApplyResults(d, "security", task_sha)

security_update_error(d, task_sha) ==
    [ d EXCEPT !.security_status = "error",
               !.error_message = ErrorText("security", task_sha) ]

\* the final commit as a set without merge: the document is replaced
update_final_report_set(d, task_sha) ==
    IF d.head_sha = task_sha
    THEN [ NoDoc EXCEPT !.exists = TRUE, !.status = "complete", !.final_report = task_sha ]
    ELSE d

\* report-consolidator update_final_report_atomically
update_final_report_atomically(d, task_sha) ==
    IF d.head_sha = task_sha
    THEN [ d EXCEPT !.status = "complete", !.final_report = task_sha ]
    ELSE d

\* the except handler of the consolidator recording success
update_final_error_as_complete(d, task_sha, error_message) ==
    IF d.head_sha = task_sha
    THEN [ d EXCEPT !.status = "complete", !.final_report = task_sha ]
    ELSE d

\* the except handler of the consolidator recording nothing
update_final_error_dropped(d, task_sha, error_message) == d

\* report-consolidator update_final_error_atomically
update_final_error_atomically(d, task_sha, error_message) ==
    IF d.head_sha = task_sha
    THEN [ d EXCEPT !.status = "error",
                    !.final_consolidator_error = [kind |-> error_message, sha |-> task_sha] ]
    ELSE d

\* what the four fenced commits hand back to their caller: none of them has a
\* return statement, the outcome is only printed
FencedReturn(d, task_sha) == None

(* ------------------------------ Init ----------------------------------- *)
InitWith(redeliveries, publish_failures) ==
    /\ doc = NoDoc
    /\ taskQ = [d \in Domains |-> [s \in Shas |-> 0]]
    /\ consQ = EmptyBag
    /\ wpc = [w \in Watchers |-> "idle"]
    /\ wdirty = [w \in Watchers |-> FALSE]
    /\ hist = <<>>
    /\ budget = redeliveries
    /\ pubCount = [s \in Shas |-> 0]
    /\ posted = [s \in Shas |-> 0]
    /\ ret = None
    /\ http = NoRequest
    /\ faults = publish_failures
    /\ infer = NoCall
    /\ addr = NoEvents
    /\ analysis = NoAnalysis

\* every message is delivered exactly once, every publish call succeeds
Init == InitWith(0, 0)

\* at-least-once delivery: up to MaxRedeliver messages are delivered twice
InitAtLeastOnce == InitWith(MaxRedeliver, 0)

\* up to MaxPublishFailures publish calls fail
InitPublishFailures == InitWith(0, MaxPublishFailures)

\* a committed write aborts every watcher transaction that has read the document
\* and not yet committed
Written(newdoc) ==
    /\ doc' = newdoc
    /\ wdirty' = [w \in Watchers |-> wdirty[w] \/ wpc[w] = "commit"]

NotWritten == UNCHANGED <<doc, wdirty>>

\* a fenced commit: the transaction writes only when the function changed the
\* document, and hands its return value to the caller
Fenced(new, task_sha) ==
    /\ IF new = doc THEN NotWritten ELSE Written(new)
    /\ ret' = FencedReturn(doc, task_sha)

(* --------------------------- pr-orchestrator --------------------------- *)
\* the X-Hub-Signature-256 header of a request, as the sequence of its pieces
\* with "=" a piece of its own: none (or empty), the HMAC-SHA256 of the body
\* under the configured secret ("mac"), another digest, another algorithm, no
\* "=" at all, a second "="
ValidSignature == << "sha256", "=", "mac" >>
Headers ==
    { << >>, ValidSignature, << "sha256", "=", "bad" >>, << "sha1", "=", "mac1" >>,
      << "sha256" >>, << "sha256", "=", "mac", "=" >> }

\* signature.split("=", 1)
Split1(text) ==
    IF \E i \in 1..Len(text) : text[i] = "="
    THEN LET i == CHOOSE k \in 1..Len(text) :
                      text[k] = "=" /\ \A j \in 1..(k - 1) : text[j] /= "="
         IN  << SubSeq(text, 1, i - 1), SubSeq(text, i + 1, Len(text)) >>
    ELSE << text >>

\* the verification that compares the algorithm name only
verify_signature_name_only(signature) ==
    IF signature = << >> THEN 403
    ELSE IF Len(Split1(signature)) /= 2 THEN 403
    ELSE IF Split1(signature)[1] /= << "sha256" >> THEN 501
    ELSE 0

\* verify_signature: the status code of the HTTPException it raises, 0 when it
\* returns
verify_signature(signature) ==
    IF signature = << >> THEN 403
    ELSE IF Len(Split1(signature)) /= 2 THEN 403
    ELSE IF Split1(signature)[1] /= << "sha256" >> THEN 501
    ELSE IF Split1(signature)[2] /= << "mac" >> THEN 403
    ELSE 0

\* receive_webhook: a request that fails verify_signature is answered with the
\* raised status before the payload is read. A non-qualifying
\* action is answered 204. A qualifying one carries the next pushed head_sha:
\* set(merge=True), then one publish per topic in order, each awaited; the
\* first `published` of them succeed, and when one raises the handler answers
\* 500 and leaves the document and the messages already published as they are.
receive_webhook(signature, action, sha, published) ==
    IF verify_signature(signature) /= 0
    THEN /\ http.n - Len(hist) < MaxIgnored
         /\ http' = [n |-> http.n + 1, action |-> None,
                     status |-> verify_signature(signature), signature |-> signature]
         /\ UNCHANGED <<doc, taskQ, consQ, wpc, wdirty, hist, budget, pubCount,
                        posted, ret, faults, infer, addr, analysis>>
    ELSE IF action \notin Qualifying
    THEN /\ http.n - Len(hist) < MaxIgnored
         /\ http' = [n |-> http.n + 1, action |-> action, status |-> 204,
                     signature |-> signature]
         /\ UNCHANGED <<doc, taskQ, consQ, wpc, wdirty, hist, budget, pubCount,
                        posted, ret, faults, infer, addr, analysis>>
    ELSE /\ Len(hist) < Len(Revisions)
         /\ sha = Revisions[Len(hist) + 1]
         /\ Written(SetMerge(doc, sha))
         /\ taskQ' = [d \in Domains |->
                        IF \E i \in 1..published : Topics[i] = d
                        THEN [taskQ[d] EXCEPT ![sha] = @ + 1]
                        ELSE taskQ[d]]
         /\ hist' = Append(hist, sha)
         /\ IF published < Len(Topics)
            THEN /\ faults > 0
                 /\ faults' = faults - 1
                 /\ http' = [n |-> http.n + 1, action |-> action, status |-> 500,
                             signature |-> signature]
            ELSE /\ UNCHANGED faults
                 /\ http' = [n |-> http.n + 1, action |-> action, status |-> 200,
                             signature |-> signature]
         /\ UNCHANGED <<consQ, wpc, budget, pubCount, posted, ret, infer, addr, analysis>>

\* the pull request is opened with the first head commit and synchronized with
\* every later one; all three publishes succeed
Ingest(sha) ==
    receive_webhook(ValidSignature, IF hist = << >> THEN "opened" ELSE "synchronize",
                    sha, Len(Topics))

(* ------------------------ delivery of task messages -------------------- *)
\* the topic hands a message to the executor, which launches the job with the
\* message as TASK_PAYLOAD; delivery is at-least-once
Deliver(dom, sha, again) ==
    /\ taskQ[dom][sha] > 0
    /\ IF again
       THEN /\ budget > 0
            /\ budget' = budget - 1
            /\ UNCHANGED taskQ
       ELSE /\ taskQ' = [taskQ EXCEPT ![dom][sha] = @ - 1]
            /\ UNCHANGED budget

(* ------------------------------- workers ------------------------------- *)
\* quality-analyst main: outcome "ok" reaches update_firestore_atomically,
\* outcome "raise" is an exception caught by the outer except
QualityWorker(sha, outcome, again) ==
    /\ Deliver("quality", sha, again)
    /\ Fenced(IF outcome = "ok"
              THEN update_firestore_atomically(doc, "quality", sha)
              ELSE quality_update_error_atomically(doc, sha), sha)
    /\ UNCHANGED <<consQ, wpc, hist, pubCount, posted, http, faults, infer, addr, analysis>>

\* security-specialist main: review_ref.update without a transaction
SecurityWorker(sha, outcome, again) ==
    /\ Deliver("security", sha, again)
    /\ Written(IF outcome = "ok"
               THEN security_update_results(doc, sha)
               ELSE security_update_error(doc, sha))
    /\ UNCHANGED <<consQ, wpc, hist, pubCount, posted, ret, http, faults, infer, addr, analysis>>

\* doc-drafter main: on "raise" the except handler calls traceback.format_Ecx(),
\* which raises AttributeError before update_error_atomically is reached
DocsWorker(sha, outcome, again) ==
    /\ Deliver("docs", sha, again)
    /\ IF outcome = "ok"
       THEN Fenced(update_firestore_atomically(doc, "docs", sha), sha)
       ELSE NotWritten /\ UNCHANGED ret
    /\ UNCHANGED <<consQ, wpc, hist, pubCount, posted, http, faults, infer, addr, analysis>>

(* -------------------------- completion watcher ------------------------- *)
\* the JSON-safe snapshot forwarded to the consolidator
\* the snapshot with the session-level fields forwarded as well
safe_data_with_session_fields(d) ==
    [ status |-> d.status,
      tasks_completed |-> d.tasks_completed,
      total_tasks |-> d.total_tasks,
      quality_status |-> d.quality_status,
      quality_analysis_results |-> d.quality_analysis_results,
      quality_error |-> d.quality_error,
      security_status |-> d.security_status,
      security_analysis_results |-> d.security_analysis_results,
      security_error |-> d.security_error,
      docs_status |-> d.docs_status,
      docs_analysis_results |-> d.docs_analysis_results,
      docs_error |-> d.docs_error ]

safe_data(d) ==
    [ quality_status |-> d.quality_status,
      quality_analysis_results |-> d.quality_analysis_results,
      quality_error |-> d.quality_error,
      security_status |-> d.security_status,
      security_analysis_results |-> d.security_analysis_results,
      security_error |-> d.security_error,
      docs_status |-> d.docs_status,
      docs_analysis_results |-> d.docs_analysis_results,
      docs_error |-> d.docs_error ]

ConsolidationMessage(d) == [sha |-> d.head_sha, full_data |-> safe_data(d)]

\* data.get("total_tasks", -1): what the watcher reads when the field is missing
DefaultTotalTasks == -1

\* the condition without the comparison of the status
CounterReached(d) == d.tasks_completed >= d.total_tasks

\* the condition without the comparison of the counter
StatusIsPending(d) == d.status = "pending"

\* the condition under which trigger_consolidation acts
CompletionCondition(d) ==
    d.tasks_completed >= d.total_tasks /\ d.status = "pending"

\* one execution of the body of trigger_consolidation by invocation w: it reads
\* the document, returns when there is none, and when the condition holds it buffers the status update and
\* calls publisher.publish, all before the transaction commits
TriggerBody(w) ==
    /\ IF doc.exists /\ CompletionCondition(doc)
       THEN /\ consQ' = consQ (+) SetToBag({ConsolidationMessage(doc)})
            /\ pubCount' = [pubCount EXCEPT ![doc.head_sha] = @ + 1]
            /\ wpc' = [wpc EXCEPT ![w] = "commit"]
       ELSE /\ wpc' = [wpc EXCEPT ![w] = "idle"]
            /\ UNCHANGED <<consQ, pubCount>>
    /\ wdirty' = [wdirty EXCEPT ![w] = FALSE]
    /\ UNCHANGED <<doc, taskQ, hist, budget, posted, ret, http, faults, infer, addr, analysis>>

\* an execution of the body in which the condition holds and the publish call
\* fails. "raises": publisher.publish raises, the exception leaves the
\* transactional function (nothing is committed) and check_completion prints it.
\* "lost": publish returns a future that fails later; nobody reads the future,
\* and the transaction goes on to its commit.
TriggerPublishFails(w, how) ==
    /\ wpc[w] = "idle" \/ (wpc[w] = "commit" /\ wdirty[w])
    /\ doc.exists
    /\ CompletionCondition(doc)
    /\ faults > 0
    /\ faults' = faults - 1
    /\ wpc' = [wpc EXCEPT ![w] = IF how = "raises" THEN "idle" ELSE "commit"]
    /\ wdirty' = [wdirty EXCEPT ![w] = FALSE]
    /\ UNCHANGED <<doc, taskQ, consQ, hist, budget, pubCount, posted, ret, http, infer, addr, analysis>>

\* check_completion is invoked for a change of the document
WatcherBegin(w) ==
    /\ wpc[w] = "idle"
    /\ TriggerBody(w)

\* the commit of the buffered update succeeds: status becomes consolidating
WatcherCommit(w) ==
    /\ wpc[w] = "commit"
    /\ ~wdirty[w]
    /\ doc' = [doc EXCEPT !.status = "consolidating"]
    /\ wdirty' = [x \in Watchers |-> x /= w /\ (wdirty[x] \/ wpc[x] = "commit")]
    /\ wpc' = [wpc EXCEPT ![w] = "idle"]
    /\ UNCHANGED <<taskQ, consQ, hist, budget, pubCount, posted, ret, http, faults, infer, addr, analysis>>

\* the commit is aborted because the document changed since it was read:
\* firestore.transactional runs the body again
WatcherRetry(w) ==
    /\ wpc[w] = "commit"
    /\ wdirty[w]
    /\ TriggerBody(w)

(* ------------------------------ consolidator --------------------------- *)
\* report-consolidator main for consolidation message m, delivered as
\* TASK_PAYLOAD. outcome: "posted" (report generated and posted, then
\* update_final_report_atomically), "generate_failed" (generate_content_with_retry
\* raises) or "post_failed" (post_to_github raises); both failures reach
\* update_final_error_atomically in the except handler. main reads the document
\* only inside the final fenced commit.
Consolidator(m, outcome, again) ==
    /\ BagIn(m, consQ)
    /\ IF again
       THEN /\ budget > 0
            /\ budget' = budget - 1
            /\ UNCHANGED consQ
       ELSE /\ consQ' = consQ (-) SetToBag({m})
            /\ UNCHANGED budget
    /\ posted' = IF outcome = "posted"
                 THEN [posted EXCEPT ![m.sha] = @ + 1]
                 ELSE posted
    /\ Fenced(IF outcome = "posted"
              THEN update_final_report_atomically(doc, m.sha)
              ELSE update_final_error_atomically(doc, m.sha, outcome), m.sha)
    /\ UNCHANGED <<taskQ, wpc, hist, pubCount, http, faults, infer, addr, analysis>>

\* consolidation message m is larger than 200 KB: trigger_job_from_pubsub cuts
\* TASK_PAYLOAD to its first 200 KB and starts the job; report-consolidator main
\* fails to parse the cut text as JSON, prints a warning and returns
ConsolidatorPayloadTruncated(m) ==
    /\ BagIn(m, consQ)
    /\ consQ' = consQ (-) SetToBag({m})
    /\ UNCHANGED <<doc, taskQ, wpc, wdirty, hist, budget, pubCount, posted, ret,
                   http, faults, infer, addr, analysis>>

\* format_report_body: for each domain, in the order quality, security, docs,
\* a section with the results when the status is complete, a section marked
\* FAILED with the <domain>_error entry of the data when it is error, and no
\* section otherwise
ReportSection(data, dom) ==
    IF data[StatusField(dom)] = "complete"
    THEN [domain |-> dom, failed |-> FALSE, items |-> data[ResultsField(dom)],
          error |-> NoError]
    ELSE [domain |-> dom, failed |-> TRUE, items |-> None,
          error |-> data[ErrorField(dom)]]

\* the body with a section for every domain, a pending one rendered as FAILED
format_report_body_every_domain(data) ==
    [i \in 1..Len(Topics) |-> ReportSection(data, Topics[i])]

format_report_body(data) ==
    LET HasSection(dom) == data[StatusField(dom)] \in {"complete", "error"}
        Sections == [i \in 1..Len(Topics) |-> ReportSection(data, Topics[i])]
    IN  SelectSeq(Sections, LAMBDA sec : HasSection(sec.domain))

(* ---------------------------- specification ---------------------------- *)
WorkerOutcomes == {"ok", "raise"}
ConsolidatorOutcomes == {"posted", "generate_failed", "post_failed"}

\* every step but the ingestion of a webhook event
SystemNext ==
    \/ \E s \in Shas, o \in WorkerOutcomes, a \in BOOLEAN : QualityWorker(s, o, a)
    \/ \E s \in Shas, o \in WorkerOutcomes, a \in BOOLEAN : SecurityWorker(s, o, a)
    \/ \E s \in Shas, o \in WorkerOutcomes, a \in BOOLEAN : DocsWorker(s, o, a)
    \/ \E w \in Watchers : WatcherBegin(w)
    \/ \E w \in Watchers : WatcherCommit(w)
    \/ \E w \in Watchers : WatcherRetry(w)
    \/ \E m \in BagToSet(consQ), o \in ConsolidatorOutcomes, a \in BOOLEAN :
          Consolidator(m, o, a)

Next ==
    \/ \E s \in Shas : Ingest(s)
    \/ SystemNext

Spec == Init /\ [][Next]_vars

SpecAtLeastOnce == InitAtLeastOnce /\ [][Next]_vars

\* scenario C: head_sha abc was ingested and, before any worker ran, head_sha
\* def was ingested for the same pull request
InitScenarioC ==
    /\ doc = SetMerge(SetMerge(NoDoc, "abc"), "def")
    /\ taskQ = [d \in Domains |-> [s \in Shas |-> 1]]
    /\ consQ = EmptyBag
    /\ wpc = [w \in Watchers |-> "idle"]
    /\ wdirty = [w \in Watchers |-> FALSE]
    /\ hist = <<"abc", "def">>
    /\ budget = 0
    /\ pubCount = [s \in Shas |-> 0]
    /\ posted = [s \in Shas |-> 0]
    /\ ret = None
    /\ http = [n |-> 2, action |-> "synchronize", status |-> 200,
               signature |-> ValidSignature]
    /\ faults = 0
    /\ infer = NoCall
    /\ addr = NoEvents
    /\ analysis = NoAnalysis

SpecScenarioC == InitScenarioC /\ [][SystemNext]_vars

\* every webhook request, failing publish calls included
PublishFailures == {"raises", "lost"}

NextWebhook ==
    \/ \E a \in Actions, s \in Shas, k \in 0..Len(Topics) :
          receive_webhook(ValidSignature, a, s, k)
    \/ \E w \in Watchers, how \in PublishFailures : TriggerPublishFails(w, how)
    \/ SystemNext

SpecWebhook == InitPublishFailures /\ [][NextWebhook]_vars

\* the watcher alone, invoked for any document it can find: none, or one with
\* any status, any counter, and total_tasks present or missing (a missing
\* field is held as the default the watcher reads for it)
WatcherDocs ==
    { NoDoc } \cup
    { [SetMerge(NoDoc, sha) EXCEPT !.status = st, !.tasks_completed = n,
                                   !.total_tasks = t] :
        sha \in Shas,
        st \in {"pending", "consolidating", "complete", "error"},
        n \in 0..TotalTasks,
        t \in {DefaultTotalTasks, TotalTasks} }

InitWatcher ==
    /\ doc \in WatcherDocs
    /\ taskQ = [d \in Domains |-> [s \in Shas |-> 0]]
    /\ consQ = EmptyBag
    /\ wpc = [w \in Watchers |-> "idle"]
    /\ wdirty = [w \in Watchers |-> FALSE]
    /\ hist = IF doc.exists THEN << doc.head_sha >> ELSE << >>
    /\ budget = 0
    /\ pubCount = [s \in Shas |-> 0]
    /\ posted = [s \in Shas |-> 0]
    /\ ret = None
    /\ http = IF doc.exists
              THEN [n |-> 1, action |-> "opened", status |-> 200,
                    signature |-> ValidSignature]
              ELSE NoRequest
    /\ faults = 0
    /\ infer = NoCall
    /\ addr = NoEvents
    /\ analysis = NoAnalysis

NextWatcher ==
    \/ \E w \in Watchers : WatcherBegin(w)
    \/ \E w \in Watchers : WatcherCommit(w)
    \/ \E w \in Watchers : WatcherRetry(w)

SpecWatcher == InitWatcher /\ [][NextWatcher]_vars

\* ingestion with any signature header on the request
NextSigned ==
    \/ \E sig \in Headers, s \in Shas :
          receive_webhook(sig, IF hist = << >> THEN "opened" ELSE "synchronize",
                          s, Len(Topics))
    \/ SystemNext

SpecSigned == Init /\ [][NextSigned]_vars

\* the consolidation channel with its job launcher: a message of any size
NextLauncher ==
    \/ Next
    \/ \E m \in BagToSet(consQ) : ConsolidatorPayloadTruncated(m)

SpecLauncher == Init /\ [][NextLauncher]_vars

\* one call to the inference collaborator by any of the four components, for
\* every sequence of what the attempts can meet
InitInference ==
    /\ doc = NoDoc
    /\ taskQ = [d \in Domains |-> [s \in Shas |-> 0]]
    /\ consQ = EmptyBag
    /\ wpc = [w \in Watchers |-> "idle"]
    /\ wdirty = [w \in Watchers |-> FALSE]
    /\ hist = << >>
    /\ budget = 0
    /\ pubCount = [s \in Shas |-> 0]
    /\ posted = [s \in Shas |-> 0]
    /\ ret = None
    /\ http = NoRequest
    /\ faults = 0
    /\ infer \in { [NoCall EXCEPT !.caller = c, !.script = scr, !.draws = dr] :
                      c \in Callers, scr \in [1..max_retries -> CallOutcomes],
                      dr \in [1..(max_retries - 1) -> RandomValues] }
    /\ addr = NoEvents
    /\ analysis = NoAnalysis

InferenceCall ==
    /\ infer.caller /= None
    /\ infer.calls = 0
    /\ infer' = [infer EXCEPT
                   !.calls = InferenceBy(infer.caller, infer.script, infer.draws).calls,
                   !.result = InferenceBy(infer.caller, infer.script, infer.draws).result,
                   !.sleeps = InferenceBy(infer.caller, infer.script, infer.draws).sleeps]
    /\ UNCHANGED <<doc, taskQ, consQ, wpc, wdirty, hist, budget, pubCount, posted,
                   ret, http, faults, addr, analysis>>

SpecInference == InitInference /\ [][InferenceCall]_vars

\* the review_id of two webhook events, for every pair of events
InitReviewId ==
    /\ doc = NoDoc
    /\ taskQ = [d \in Domains |-> [s \in Shas |-> 0]]
    /\ consQ = EmptyBag
    /\ wpc = [w \in Watchers |-> "idle"]
    /\ wdirty = [w \in Watchers |-> FALSE]
    /\ hist = << >>
    /\ budget = 0
    /\ pubCount = [s \in Shas |-> 0]
    /\ posted = [s \in Shas |-> 0]
    /\ ret = None
    /\ http = NoRequest
    /\ faults = 0
    /\ infer = NoCall
    /\ addr \in { [NoEvents EXCEPT !.first = e1, !.second = e2] :
                     e1 \in PrInfos, e2 \in PrInfos }
    /\ analysis = NoAnalysis

ComputeReviewIds ==
    /\ addr.first /= NoPrInfo
    /\ addr.ids = << >>
    /\ addr' = [addr EXCEPT !.ids = << review_id(addr.first), review_id(addr.second) >>]
    /\ UNCHANGED <<doc, taskQ, consQ, wpc, wdirty, hist, budget, pubCount, posted,
                   ret, http, faults, infer, analysis>>

SpecReviewId == InitReviewId /\ [][ComputeReviewIds]_vars

\* one worker's analysis, for every worker and list of changed files
InitAnalysis ==
    /\ doc = NoDoc
    /\ taskQ = [d \in Domains |-> [s \in Shas |-> 0]]
    /\ consQ = EmptyBag
    /\ wpc = [w \in Watchers |-> "idle"]
    /\ wdirty = [w \in Watchers |-> FALSE]
    /\ hist = << >>
    /\ budget = 0
    /\ pubCount = [s \in Shas |-> 0]
    /\ posted = [s \in Shas |-> 0]
    /\ ret = None
    /\ http = NoRequest
    /\ faults = 0
    /\ infer = NoCall
    /\ addr = NoEvents
    /\ analysis \in { [NoAnalysis EXCEPT !.worker = w, !.files = f] :
                         w \in Domains,
                         f \in UNION { [1..n -> FileKinds] : n \in 0..MaxFiles } }

Analyse ==
    /\ analysis.worker /= None
    /\ analysis.status = None
    /\ analysis' = [analysis EXCEPT
                       !.status = AnalysisBy(analysis.worker, analysis.files).status,
                       !.results = AnalysisBy(analysis.worker, analysis.files).results]
    /\ UNCHANGED <<doc, taskQ, consQ, wpc, wdirty, hist, budget, pubCount, posted,
                   ret, http, faults, infer, addr>>

SpecAnalysis == InitAnalysis /\ [][Analyse]_vars

(* ======================================================================= *)
(* Properties                                                              *)
(* ======================================================================= *)
\* steps, recognised by what they consume
Reingestion == hist' /= hist
\* a run of domain dom's worker for a message carrying head_sha s
WorkerRun(dom, s) == taskQ[dom][s] > 0 /\ taskQ'[dom][s] = taskQ[dom][s] - 1
\* a consolidator run for message m
ConsolidatorRun(m) == BagIn(m, consQ) /\ consQ' = consQ (-) SetToBag({m})

DomainFields(d) ==
    << d.quality_status, d.security_status, d.docs_status,
       d.quality_analysis_results, d.security_analysis_results,
       d.docs_analysis_results, d.tasks_completed >>

\* C1: within one session lifetime the watcher publishes the consolidation
\* message exactly once: never while tasks_completed < total_tasks, and never a
\* second time, whatever the interleaving of worker commits and of duplicate or
\* concurrent watcher invocations.
C1_ExactlyOneConsolidationMessage ==
    (Len(hist) = 1) =>
        /\ pubCount[doc.head_sha] <= 1
        /\ (doc.tasks_completed < doc.total_tasks => pubCount[doc.head_sha] = 0)

\* C2: once a newer revision is ingested, a result commit of a prior-revision
\* worker of any domain changes no domain results, no domain status and does
\* not increment tasks_completed.
C2_PriorRevisionCommitsRejected ==
    [][ \A dom \in Domains, s \in Shas :
          (WorkerRun(dom, s) /\ s /= doc.head_sha)
              => DomainFields(doc') = DomainFields(doc) ]_vars

\* C3: tasks_completed never exceeds total_tasks, and between two ingestions it
\* never decreases.
C3_TasksCompletedBoundedMonotone ==
    /\ [](doc.exists => doc.tasks_completed <= doc.total_tasks)
    /\ [][ ~Reingestion => doc'.tasks_completed >= doc.tasks_completed ]_vars

\* a fenced commit called with a task_sha that differs from the stored head_sha:
\* every quality-analyst run and every consolidator run ends in one
StaleFencedCall ==
    \/ \E s \in Shas : WorkerRun("quality", s) /\ s /= doc.head_sha
    \/ \E m \in BagToSet(consQ) : ConsolidatorRun(m) /\ m.sha /= doc.head_sha

\* the same for doc-drafter, whose run ends in a fenced commit unless it raised
StaleDocsRun == \E s \in Shas : WorkerRun("docs", s) /\ s /= doc.head_sha

DomainStatus(d) == << d.quality_status, d.security_status, d.docs_status >>
DomainResults(d) ==
    << d.quality_analysis_results, d.security_analysis_results,
       d.docs_analysis_results >>

\* C5: a domain that ends in error still counts toward tasks_completed: with
\* one domain recorded as error and the other two as complete under the current
\* head_sha, tasks_completed has reached total_tasks, so that the watcher flips
\* the status and the session can end complete.
C5_ErroredDomainCounts ==
    ( /\ Len(hist) = 1
      /\ \E i \in 1..3 :
            /\ DomainStatus(doc)[i] = "error"
            /\ \A j \in (1..3) \ {i} : DomainStatus(doc)[j] = "complete" )
        => doc.tasks_completed >= doc.total_tasks

\* C6: between two ingestions the status only moves pending -> consolidating
\* -> complete | error: consolidating is entered only from pending, complete and
\* error only from consolidating, and nothing moves back.
C6_StatusLifecycle ==
    [][ (~Reingestion /\ doc'.status /= doc.status)
          => << doc.status, doc'.status >> \in
                { << "pending", "consolidating" >>,
                  << "consolidating", "complete" >>,
                  << "consolidating", "error" >> } ]_vars

\* C7: scenario A. After the ingestion of abc the session has total_tasks = 3
\* and status pending; the status stays pending until the third domain commit,
\* then becomes consolidating, and the consolidator sets complete, with a
\* final_report, on the consolidating session: a pending session is never set
\* to complete.
C7_ScenarioA ==
    /\ [](Len(hist) = 1 =>
            /\ doc.total_tasks = 3
            /\ (doc.tasks_completed < 3 => doc.status = "pending")
            /\ (doc.status = "complete" => doc.final_report = "abc"))
    /\ [][ (Len(hist) = 1 /\ ~Reingestion /\ doc.status = "pending")
             => doc'.status \in {"pending", "consolidating", "error"} ]_vars

\* C8: scenario C. Every later commit for abc is rejected as stale, no
\* consolidation is triggered for abc, and exactly one, carrying def, once all
\* three domains have committed under def.
C8_ScenarioC ==
    /\ \A i \in 1..3 : DomainResults(doc)[i] /= "abc"
    /\ doc.error_message.sha /= "abc"
    /\ pubCount["abc"] = 0
    /\ pubCount["def"] <= 1
    /\ (pubCount["def"] = 1 =>
            \A i \in 1..3 : DomainResults(doc)[i] = "def" \/ DomainStatus(doc)[i] = "error")

\* C9: a consolidation message processed when the status is already complete or
\* error changes no field of the session and posts no further report.
C9_ConsolidatorIdempotent ==
    [][ \A m \in BagToSet(consQ) :
          (ConsolidatorRun(m) /\ doc.status \in {"complete", "error"})
              => (doc' = doc /\ posted' = posted) ]_vars

\* C10: a consolidator run whose report was not posted (post_to_github raised),
\* for a message whose head_sha is still the stored one, ends with status error.
C10_PublishFailureEndsInError ==
    [][ \A m \in BagToSet(consQ) :
          (ConsolidatorRun(m) /\ m.sha = doc.head_sha /\ posted' = posted)
              => /\ doc'.status = "error"
                 /\ doc'.final_consolidator_error.sha = m.sha ]_vars

\* a run in which post_to_github raised has ended: the session is in error
C10_Witness ==
    /\ doc.status = "error"
    /\ doc.final_consolidator_error = [kind |-> "post_failed", sha |-> doc.head_sha]
    /\ posted[doc.head_sha] = 0
    /\ pubCount[doc.head_sha] = 1
    /\ consQ = EmptyBag

DomainErrors(d) == << d.error_message, d.quality_error, d.security_error, d.docs_error >>

\* C11: every ingestion resets the session: afterwards the status is pending,
\* tasks_completed is 0, every domain status is pending, head_sha is the new
\* one, and no domain results, error text or final_report of the previous
\* revision remains.
C11_IngestionResetsSession ==
    [][ Reingestion =>
          /\ doc'.status = "pending"
          /\ doc'.tasks_completed = 0
          /\ DomainStatus(doc') = << "pending", "pending", "pending" >>
          /\ doc'.head_sha = hist'[Len(hist')]
          /\ DomainResults(doc') = << None, None, None >>
          /\ DomainErrors(doc') = << NoError, NoError, NoError, NoError >>
          /\ doc'.final_report = None
          /\ doc'.final_consolidator_error.sha = None ]_vars

\* a webhook request was handled in this step
WebhookRequest == http'.n = http.n + 1

\* C12: a webhook event whose action is not opened, reopened or synchronize is
\* accepted without error (204) and has no effect: the document is neither
\* created nor modified and no message is dispatched.
C12_NonQualifyingIgnored ==
    [][ (WebhookRequest /\ http'.action \notin {"opened", "reopened", "synchronize"})
          => /\ http'.status = 204
             /\ doc' = doc
             /\ taskQ' = taskQ
             /\ consQ' = consQ
             /\ hist' = hist ]_vars

\* a 'closed' event was handled after the ingestion of abc, before any worker
\* ran: the session and its three messages are as the ingestion left them
C12_Witness ==
    /\ http = [n |-> 2, action |-> "closed", status |-> 204,
               signature |-> << "sha256", "=", "mac" >>]
    /\ hist = << "abc" >>
    /\ doc = SetMerge(NoDoc, "abc")
    /\ \A dom \in Domains : taskQ[dom]["abc"] = 1

\* C13: every ingested qualifying event dispatches exactly one message on each
\* of the three domain topics, carrying the head_sha written to the session, so
\* that no session exists with fewer than total_tasks messages dispatched for
\* its head_sha.
C13_OneMessagePerDomain ==
    [][ Reingestion =>
          \A dom \in Domains :
             taskQ'[dom] = [taskQ[dom] EXCEPT ![doc'.head_sha] = @ + 1] ]_vars

\* C14: a failed publish call, of a task message by receive_webhook or of the
\* consolidation message by the watcher, leaves the session in status error.
C14_PublishFailureSurfaced ==
    [][ faults' < faults => doc'.status = "error" ]_vars

\* C15: for each domain and head_sha the status leaves pending once: when a
\* domain's status is complete or error, no later commit of the same session
\* lifetime (a redelivered task included) changes that status or its results,
\* and tasks_completed grows only by the domains that leave pending.
C15_DomainStatusSetOnce ==
    [][ ~Reingestion =>
          /\ \A i \in 1..3 :
                DomainStatus(doc)[i] \in {"complete", "error"}
                   => /\ DomainStatus(doc')[i] = DomainStatus(doc)[i]
                      /\ DomainResults(doc')[i] = DomainResults(doc)[i]
          /\ doc'.tasks_completed - doc.tasks_completed
                <= Cardinality({ i \in 1..3 : /\ DomainStatus(doc)[i] = "pending"
                                              /\ DomainStatus(doc')[i] /= "pending" })
      ]_vars

\* C16: a failing worker of a superseded revision never changes the newer
\* session: its run sets no domain status to error and writes no error text
\* into a session whose head_sha differs from the task's.
C16_StaleFailureFenced ==
    [][ \A dom \in Domains, s \in Shas :
          (WorkerRun(dom, s) /\ s /= doc.head_sha)
             => /\ \A i \in 1..3 : DomainStatus(doc')[i] = "error"
                                       => DomainStatus(doc)[i] = "error"
                /\ DomainErrors(doc') = DomainErrors(doc) ]_vars

\* C17: every worker run for the current head_sha ends with a commit for its
\* domain: complete, or, when the run failed, a fenced commit of status error
\* with the error text of that run. This holds for all three domains.
C17_FailureRecordedAsError ==
    [][ \A dom \in Domains, s \in Shas :
          (WorkerRun(dom, s) /\ s = doc.head_sha)
             => \/ doc'[StatusField(dom)] = "complete"
                \/ /\ doc'[StatusField(dom)] = "error"
                   /\ ErrorText(dom, s) \in { doc'.error_message, doc'[ErrorField(dom)] }
      ]_vars

\* C18: when a domain is recorded as error, the consolidation message carries
\* that domain's error text, and the report body built from the message has a
\* section for the domain marked FAILED that includes the text.
C18_ErrorTextReachesReport ==
    \A m \in BagToSet(consQ) : \A dom \in Domains :
        m.full_data[StatusField(dom)] = "error"
           => /\ m.full_data[ErrorField(dom)].dom = dom
              /\ \E i \in 1..Len(format_report_body(m.full_data)) :
                    LET sec == format_report_body(m.full_data)[i]
                    IN  sec.domain = dom /\ sec.failed /\ sec.error.dom = dom

\* C19: whenever the status is flipped to consolidating, each of the three
\* domain statuses is complete or error, and for every domain the document
\* holds results or an error text produced under the current head_sha.
C19_FlipOnlyWhenAllFinished ==
    [][ (doc'.status = "consolidating" /\ doc.status /= "consolidating")
          => \A i \in 1..3 :
                /\ DomainStatus(doc)[i] \in {"complete", "error"}
                /\ \/ DomainResults(doc)[i] = doc.head_sha
                   \/ \E j \in 1..4 : /\ DomainErrors(doc)[j].dom = Topics[i]
                                       /\ DomainErrors(doc)[j].sha = doc.head_sha
      ]_vars

\* C20: every call of a component to the inference collaborator is made under
\* the bounded retry policy: at most 3 attempts, an attempt is repeated only
\* after a retryable failure, a retryable failure is retried until the bound,
\* and any other failure is raised after the attempt that met it. This holds
\* for the quality, security and docs workers and for the consolidator.
C20_BoundedRetryPolicy ==
    infer.calls > 0 =>
        /\ infer.calls <= 3
        /\ \A k \in 1..(infer.calls - 1) :
              infer.script[k] \in {"ResourceExhausted", "ServiceUnavailable",
                                   "InternalServerError"}
        /\ infer.result = infer.script[infer.calls]
        /\ infer.result \in {"ResourceExhausted", "ServiceUnavailable",
                              "InternalServerError"} => infer.calls = 3

\* C21: the review_id depends only on the repository name and the pull request
\* number: two events for the same pair with different head_sha address the
\* same session document.
C21_ReviewIdIgnoresCommit ==
    ( /\ addr.ids /= << >>
      /\ addr.first.repo_full_name = addr.second.repo_full_name
      /\ addr.first.pr_number = addr.second.pr_number )
        => addr.ids[1] = addr.ids[2]

\* two events for a/b #11 with different head commits got the same review_id
C21_Witness ==
    /\ addr.ids /= << >>
    /\ addr.first = [repo_full_name |-> << "a", "/", "b" >>, pr_number |-> 11,
                     head_sha |-> "abc"]
    /\ addr.second = [repo_full_name |-> << "a", "/", "b" >>, pr_number |-> 11,
                      head_sha |-> "def"]
    /\ addr.ids[1] = << "a", "_", "b", "_", "1", "1" >>

\* C22: whenever a worker commits status complete, the results are either the
\* single sentinel record with file_path N/A (no relevant file changed) or
\* exactly one record per relevant changed file, an unreadable file getting an
\* explicit 'unavailable' record; the committed sequence is never empty.
C22_OneRecordPerFile ==
    analysis.status = "complete" =>
        /\ analysis.results /= << >>
        /\ IF analysis.files = << >>
           THEN Len(analysis.results) = 1 /\ analysis.results[1].file_path = << "N", "/", "A" >>
           ELSE /\ Len(analysis.results) = Len(analysis.files)
                /\ \A i \in 1..Len(analysis.files) :
                      /\ analysis.results[i].file_path = Path(i)
                      /\ analysis.files[i] = "unreadable"
                            => analysis.results[i].feedback = "unavailable"

\* the per-domain fields forwarded to the consolidator
SnapshotKeys ==
    { "quality_status", "quality_analysis_results", "quality_error",
      "security_status", "security_analysis_results", "security_error",
      "docs_status", "docs_analysis_results", "docs_error" }

\* message m is put on the consolidation channel by this step
PublishedNow(m) == CopiesIn(m, consQ') > CopiesIn(m, consQ)

\* C23: the consolidation message the watcher publishes carries the session's
\* revision (pr_info) and, for each of the three domains, its status, results
\* and error as the publishing transaction body read them from the document,
\* and nothing else: no status, tasks_completed, total_tasks or created_at.
C23_MessageIsDomainSnapshot ==
    [][ \A m \in BagToSet(consQ') :
          PublishedNow(m) =>
            /\ DOMAIN m = {"sha", "full_data"}
            /\ m.sha = doc.head_sha
            /\ DOMAIN m.full_data = SnapshotKeys
            /\ \A k \in SnapshotKeys : m.full_data[k] = doc[k] ]_vars

\* the flip is committed and the message with the snapshot of the three
\* finished domains of revision def is on the channel
C23_Witness ==
    /\ doc.status = "consolidating"
    /\ doc.head_sha = "def"
    /\ \E m \in BagToSet(consQ) :
          /\ m.sha = "def"
          /\ m.full_data = safe_data(doc)
          /\ \A dom \in Domains : m.full_data[StatusField(dom)] = "complete"

\* C24: total_tasks is 3 from the creation of the session on, and no worker
\* commit, watcher transition or consolidator commit changes total_tasks or
\* the revision (pr_info) of the session: only an ingestion writes them.
C24_TotalTasksAndPrInfoFixed ==
    /\ [](doc.exists => doc.total_tasks = TotalTasks)
    /\ [][ ~Reingestion =>
             /\ doc'.total_tasks = doc.total_tasks
             /\ doc'.head_sha = doc.head_sha ]_vars

\* a session of revision def that went through worker commits, the flip and the
\* final commit of the consolidator still has total_tasks = 3
C24_Witness ==
    /\ doc.status = "complete"
    /\ doc.final_report = "def"
    /\ doc.head_sha = "def"
    /\ doc.tasks_completed >= TotalTasks
    /\ doc.total_tasks = TotalTasks

\* invocations of the watcher whose body ran and whose commit is still possible
AwaitingCommit == { w \in Watchers : wpc[w] = "commit" /\ ~wdirty[w] }

\* C25: the watcher publishes the consolidation message only if its flip to
\* consolidating commits: within one session lifetime every published message
\* belongs to the committed flip or to an attempt whose commit is still
\* possible, so an aborted or re-executed transaction body leaves no message.
C25_PublishOnlyWithCommittedFlip ==
    (Len(hist) = 1) =>
        pubCount[doc.head_sha] <=
            Cardinality(AwaitingCommit) + (IF doc.status = "pending" THEN 0 ELSE 1)

\* C26: the consolidator posts a report only for the revision stored in the
\* session: a run for a message whose head_sha was superseded by a newer
\* ingestion posts nothing.
C26_NoReportForSupersededRevision ==
    [][ \A m \in BagToSet(consQ) :
          (ConsolidatorRun(m) /\ m.sha /= doc.head_sha) => posted' = posted ]_vars

\* C27: a consolidation message for the session's current head_sha that is
\* delivered through the job launcher to the consolidator ends the session in
\* a terminal status: the run leaves status complete or error, never
\* consolidating, also when the payload exceeds 200 KB.
C27_DeliveredMessageEndsSession ==
    [][ \A m \in BagToSet(consQ) :
          (ConsolidatorRun(m) /\ m.sha = doc.head_sha /\ doc.status = "consolidating")
              => doc'.status \in {"complete", "error"} ]_vars

\* C28: whenever the status is consolidating, a consolidation message for the
\* session's head_sha was handed to the message channel successfully.
C28_ConsolidatingImpliesMessage ==
    doc.status = "consolidating" => pubCount[doc.head_sha] >= 1

\* C29: status complete is written only by a consolidator run that posted the
\* report for that same head_sha: in every state with status complete a report
\* for head_sha was posted and recorded, and a step that posts nothing (a run
\* whose synthesis or publish step failed) never writes complete.
C29_CompleteOnlyAfterReport ==
    /\ [](doc.status = "complete"
            => posted[doc.head_sha] >= 1 /\ doc.final_report = doc.head_sha)
    /\ [][ (doc'.status = "complete" /\ doc.status /= "complete")
             => posted'[doc'.head_sha] = posted[doc'.head_sha] + 1 ]_vars

\* an earlier run for revision def failed and recorded error, a redelivered run
\* posted the report and wrote complete
C29_Witness ==
    /\ doc.status = "complete"
    /\ doc.head_sha = "def"
    /\ doc.final_consolidator_error.sha = "def"
    /\ posted["def"] = 1

\* C30: in every state where the status is consolidating,
\* tasks_completed >= total_tasks, whatever the interleaving of ingestions,
\* worker commits and watcher invocations.
C30_ConsolidatingImpliesAllCounted ==
    doc.status = "consolidating" => doc.tasks_completed >= doc.total_tasks

\* the flip committed for the second revision after three commits were counted
C30_Witness ==
    /\ doc.status = "consolidating"
    /\ Len(hist) = 2
    /\ doc.tasks_completed = TotalTasks
    /\ \E w \in Watchers : wpc[w] = "commit" /\ wdirty[w]

\* the stored error text of domain e: its <e>_error entry and the text it put
\* under the key error_message
StoredErrorText(d, e) ==
    << d[ErrorField(e)], IF d.error_message.dom = e THEN d.error_message ELSE NoError >>

\* C31: a worker's result or error commit for domain dom changes only dom's
\* status, results and error text and tasks_completed: the status, results and
\* error text of every other domain, the session status and final_report stay
\* as they were, so no domain's error text overwrites another domain's.
C31_DomainIsolation ==
    [][ \A dom \in Domains, s \in Shas :
          WorkerRun(dom, s) =>
            /\ doc'.status = doc.status
            /\ doc'.final_report = doc.final_report
            /\ \A e \in Domains \ {dom} :
                  /\ doc'[StatusField(e)] = doc[StatusField(e)]
                  /\ doc'[ResultsField(e)] = doc[ResultsField(e)]
                  /\ StoredErrorText(doc', e) = StoredErrorText(doc, e) ]_vars

\* what makes a watcher invocation a no-op: no document, a status other than
\* pending, or a counter below total_tasks
NothingToTrigger(d) ==
    \/ ~d.exists
    \/ d.status /= "pending"
    \/ d.tasks_completed < d.total_tasks

\* C32: a watcher invocation that observes a missing document, a status other
\* than pending, or tasks_completed < total_tasks changes no field of the
\* session and publishes no message.
C32_WatcherNoOp ==
    [][ NothingToTrigger(doc) =>
          /\ pubCount' = pubCount
          /\ \A m \in BagToSet(consQ') : ~PublishedNow(m)
          /\ (wpc' /= wpc => doc' = doc) ]_vars

\* two invocations published for one revision, one committed the flip, and the
\* other, re-executed after the abort, observed status consolidating and ended
C32_Witness ==
    /\ Len(hist) = 1
    /\ doc.status = "consolidating"
    /\ pubCount[doc.head_sha] = 2
    /\ \A w \in Watchers : wpc[w] = "idle"

\* C37: the watcher never triggers consolidation for a document that has no
\* total_tasks field: with the default -1 read for the missing field no message
\* is published and the status is not flipped.
C37_NoTriggerWithoutTotalTasks ==
    [][ (doc.exists /\ doc.total_tasks = DefaultTotalTasks) =>
          /\ pubCount' = pubCount
          /\ consQ' = consQ
          /\ doc' = doc ]_vars

\* the sections of body that belong to domain dom
SectionsOf(body, dom) == { i \in 1..Len(body) : body[i].domain = dom }
\* the place of a domain in the order quality, security, docs
PlaceOf(dom) == CHOOSE i \in 1..Len(Topics) : Topics[i] = dom

\* the body renders data as C33 says
RendersData(body, data) ==
    /\ \A dom \in Domains :
          CASE data[StatusField(dom)] = "complete" ->
                 /\ Cardinality(SectionsOf(body, dom)) = 1
                 /\ \A i \in SectionsOf(body, dom) :
                       ~body[i].failed /\ body[i].items = data[ResultsField(dom)]
            [] data[StatusField(dom)] = "error" ->
                 /\ Cardinality(SectionsOf(body, dom)) = 1
                 /\ \A i \in SectionsOf(body, dom) : body[i].failed
            [] OTHER -> SectionsOf(body, dom) = {}
    /\ \A i, j \in 1..Len(body) :
          i < j => PlaceOf(body[i].domain) < PlaceOf(body[j].domain)

\* C33: for the data of every consolidation message, format_report_body renders
\* each domain independently: a normal section with the domain's records when
\* its status is complete, a section marked FAILED when it is error, no section
\* when it is pending or absent; the sections are in the order quality,
\* security, docs.
C33_ReportBodySections ==
    \A m \in BagToSet(consQ) : RendersData(format_report_body(m.full_data), m.full_data)

\* a message whose data has quality complete, security error and docs complete:
\* three sections, the second one marked FAILED
C33_Witness ==
    \E m \in BagToSet(consQ) :
        LET body == format_report_body(m.full_data)
        IN  /\ m.full_data.security_status = "error"
            /\ Len(body) = 3
            /\ ~body[1].failed /\ body[2].failed /\ ~body[3].failed

\* a message whose data has a pending domain: that domain has no section
C33_WitnessPending ==
    \E m \in BagToSet(consQ) :
        /\ m.full_data.docs_status = "pending"
        /\ Len(format_report_body(m.full_data)) = 2

\* a call made through generate_content_with_retry has ended
RetriedCall == infer.calls > 0 /\ infer.caller \in {"docs", "consolidator"}

\* C34: generate_content_with_retry ends after at most max_retries calls of the
\* model and never without a response or a raised failure: it returns the first
\* success, raises a non-retryable failure after the call that met it (after
\* one call when it is the first), and after max_retries retryable failures in
\* a row raises the last one; it sleeps between attempts only, never after the
\* final one.
C34_RetryTerminates ==
    RetriedCall =>
        /\ infer.calls \in 1..max_retries
        /\ infer.result /= None
        /\ infer.result = infer.script[infer.calls]
        /\ \A k \in 1..(infer.calls - 1) : infer.script[k] \in Retryable
        /\ infer.result \in Retryable => infer.calls = max_retries
        /\ infer.script[1] \notin Retryable => infer.calls = 1
        /\ Len(infer.sleeps) = infer.calls - 1

\* three retryable failures in a row: three calls, the last failure raised,
\* two sleeps
C34_Witness ==
    /\ RetriedCall
    /\ infer.script = << "ResourceExhausted", "ServiceUnavailable", "InternalServerError" >>
    /\ infer.calls = max_retries
    /\ infer.result = "InternalServerError"
    /\ Len(infer.sleeps) = max_retries - 1

\* the second success after one retryable failure is returned
C34_WitnessSuccess ==
    /\ RetriedCall
    /\ infer.script[1] = "ServiceUnavailable"
    /\ infer.script[2] = "ok"
    /\ infer.calls = 2
    /\ infer.result = "ok"

\* delay a is shorter than delay b
Shorter(a, b) ==
    \/ a.seconds < b.seconds
    \/ a.seconds = b.seconds /\ a.fraction = "0" /\ b.fraction = "0.5"

\* C38 as stated: the delay before the k-th retry has integer part exactly 2^k
\* seconds plus a jitter below one second, and the delays strictly increase.
C38_DelayIntegerPartIsPowerOfTwo ==
    RetriedCall =>
        /\ \A k \in 1..Len(infer.sleeps) : infer.sleeps[k].seconds = Pow2(k)
        /\ \A k \in 1..(Len(infer.sleeps) - 1) :
              Shorter(infer.sleeps[k], infer.sleeps[k + 1])

\* C38 amended: the delay before the k-th retry is at least 2^k and at most
\* 2^k + 1 seconds (the jitter is below one second, but the float sum rounds up
\* to 2^k + 1 for the greatest jitter values), and the delays strictly increase.
C38_DelayWithinOneSecondOfPowerOfTwo ==
    RetriedCall =>
        /\ \A k \in 1..Len(infer.sleeps) :
              \/ infer.sleeps[k].seconds = Pow2(k)
              \/ infer.sleeps[k].seconds = Pow2(k) + 1 /\ infer.sleeps[k].fraction = "0"
        /\ \A k \in 1..(Len(infer.sleeps) - 1) :
              Shorter(infer.sleeps[k], infer.sleeps[k + 1])

\* two retries were made: the first after 2.5 s, the second after 4 s
C38_Witness ==
    /\ RetriedCall
    /\ infer.calls = max_retries
    /\ infer.sleeps = << [seconds |-> 2, fraction |-> "0.5"],
                         [seconds |-> 4, fraction |-> "0"] >>

\* C35: a webhook request whose signature header is missing, malformed, names
\* another algorithm or does not carry the HMAC-SHA256 of the body is rejected
\* (403 or 501) before any effect: the document is unchanged and no message is
\* dispatched.
C35_BadSignatureRejected ==
    [][ (WebhookRequest /\ http'.signature /= << "sha256", "=", "mac" >>)
          => /\ http'.status \in {403, 501}
             /\ doc' = doc
             /\ taskQ' = taskQ
             /\ consQ' = consQ
             /\ hist' = hist ]_vars

\* after the ingestion of abc a request signed with another algorithm was
\* answered 501: the session and its three messages are as the ingestion left
\* them
C35_Witness ==
    /\ http.n = 2
    /\ http.status = 501
    /\ http.signature = << "sha1", "=", "mac1" >>
    /\ hist = << "abc" >>
    /\ doc = SetMerge(NoDoc, "abc")
    /\ \A dom \in Domains : taskQ[dom]["abc"] = 1

\* C36: the review_id mapping is injective: two events with different
\* (repo_full_name, pr_number) pairs never get the same review_id.
C36_ReviewIdInjective ==
    ( /\ addr.ids /= << >>
      /\ \/ addr.first.repo_full_name /= addr.second.repo_full_name
         \/ addr.first.pr_number /= addr.second.pr_number )
        => addr.ids[1] /= addr.ids[2]

====
